---- MODULE Spec2Model ----
(***************************************************************************)
(* Media generation pipeline of "Ecos de Mexico": the orchestrators of the *)
(* six App components of the repository, as one state machine.            *)
(*                                                                         *)
(*   part000   src/unnamed/part_000, first program  (allSettled join)      *)
(*   App       src/App.tsx, both programs           (fire and forget)      *)
(*   part000b  src/unnamed/part_000, second program (sequential)           *)
(*   part001   src/unnamed/part_001                 (sequential)           *)
(*   part004   src/unnamed/part_004                 (sequential + regen)   *)
(*   part003   src/unnamed/part_003, home form      (research, then audio) *)
(*                                                                         *)
(* JavaScript runs one continuation at a time: every action below is one   *)
(* event handler or one continuation between two awaits, taken atomically. *)
(***************************************************************************)
EXTENDS Integers, Sequences, FiniteSets, TLC

\* ---------------------------------------------------------------- bounds
MaxCalls == 7   \* service calls issued in one behaviour
MaxLoc == 2     \* distinct location inputs

\* A run that gets past research issues at least two calls; a run with n
\* characters issues at most the research call, the speech call and n image
\* calls.
MaxRuns == MaxCalls \div 2
MaxChars == MaxCalls - 2

\* -------------------------------------------------------------- programs
Programs == {"part000", "App", "part000b", "part001", "part004", "part003"}
\* handleSearch launches speech and portraits together after research
Concurrent == {"part000", "App"}
\* ... and does not wait for them
FireAndForget == {"App"}
\* research, then speech, then portraits, then one setScenario
Sequential == {"part000b", "part001", "part004"}
\* services imported from ./services/geminiService (not in src/)
ExternalServices == {"part000", "part003"}

Runs == 1..MaxRuns
Locs == 1..MaxLoc

\* Only part000b reads its history back (the buttons of HistorySelect), and
\* the history filter is all that compares locationInput values: in the
\* other programs one value stands for all of them. App.tsx writes a history
\* too but never shows it; it is left out of this model.
LocsOf(p) == IF p = "part000b" THEN Locs ELSE {1}

\* ------------------------------------------------------------------ data
NoUrl == [run |-> 0, idx |-> 0]
Url(r, i) == [run |-> r, idx |-> i]

\* One entry of HistoricalScenario.characters as returned by research run r.
Character(r, i) ==
  [name |-> i, gender |-> "male", voice |-> "charon",
   visualDescription |-> (10 * r) + i, bio |-> r, avatarUrl |-> NoUrl]

\* An array hole, and the object {...undefined, avatarUrl: url}.
HoleChar ==
  [name |-> 0, gender |-> "hole", voice |-> "hole",
   visualDescription |-> 0, bio |-> 0, avatarUrl |-> NoUrl]
OnlyAvatar(url) ==
  [name |-> 0, gender |-> "undefined", voice |-> "undefined",
   visualDescription |-> 0, bio |-> 0, avatarUrl |-> url]

\* scenario = null
NoScenario ==
  [id |-> 0, locationInput |-> 0, context |-> 0, script |-> 0, sources |-> 0,
   hasCharacters |-> FALSE, characters |-> <<>>]

\* The object research run r returns: n characters, or no characters field.
HistoricalScenario(r, loc, n, hasChars) ==
  [id |-> r, locationInput |-> loc, context |-> r, script |-> r, sources |-> r,
   hasCharacters |-> hasChars,
   characters |-> IF hasChars THEN [i \in 1..n |-> Character(r, i)] ELSE <<>>]

\* audio = null, and the buffer decoded from the speech call of run r
NoAudio == [run |-> 0, narrator |-> FALSE]
AudioBuffer(r, includeNarrator) == [run |-> r, narrator |-> includeNarrator]

NoError == "null"

\* No helper function is being applied on its own.
NoProbe == [fn |-> "none"]

\* --------------------------------------------------- one pipeline run
\* pc: position of the handler invocation
\*   "unused" | "research" | "speech" | "portraits" | "media" | "done" | "failed"
\* res: the research promise: "none" | "pending" | "ok" | "rejected"
\* speech, portraits[i]: the media promises:
\*   "none" | "pending" | "ok" | "fail" | "settled"
NoRun ==
  [pc |-> "unused", res |-> "none", withImages |-> FALSE, loc |-> 0,
   data |-> NoScenario, speech |-> "none", portraits |-> <<>>]

VARIABLES
  prog,       \* which App component is mounted
  loading,    \* useState 'idle' | 'busy' | 'media'
  scenario,   \* useState HistoricalScenario | null
  audio,      \* useState AudioBuffer | null
  error,      \* useState string | null
  history,    \* useState HistoricalScenario[] of part000b
  includeNarrator, \* useState of ScenarioDisplay (part004)
  regen,      \* regenerateWithNarrator in flight: "none" | "with" | "without"
  runs,       \* the handler invocations and their calls in flight
  nRuns,      \* number of submissions so far
  calls,      \* number of service calls issued so far
  acted,      \* a button was used since the latest submission
  probe       \* a helper function applied on its own: its input and result

vars == <<prog, loading, scenario, audio, error, history, includeNarrator,
          regen, runs, nRuns, calls, acted, probe>>

ui == <<loading, scenario, audio, error>>

Init ==
  /\ prog \in Programs
  /\ loading = "idle"
  /\ scenario = NoScenario
  /\ audio = NoAudio
  /\ error = NoError
  /\ history = <<>>
  /\ includeNarrator = TRUE
  /\ regen = "none"
  /\ runs = [r \in Runs |-> NoRun]
  /\ nRuns = 0
  /\ calls = 0
  /\ acted = FALSE
  /\ probe = NoProbe


\* ------------------------------------------------------- pure helpers
Max(a, b) == IF a >= b THEN a ELSE b

\* The text of a generateContent response, by what the parser makes of it;
\* "transport" is a rejected call.
CodedResponses ==
  {[kind |-> k, n |-> 0] : k \in {"transport", "prose", "badjson", "nochars"}}
    \cup {[kind |-> "object", n |-> k] : k \in 0..MaxChars}

\* What the imported research service can hand back (spec 4.2, 4.3): a
\* rejection or a scenario with a non-empty characters list.
ServiceResponses ==
  {[kind |-> "transport", n |-> 0]}
    \cup {[kind |-> "object", n |-> k] : k \in 1..MaxChars}

\* part003 passes the scenario on without reading its characters: one
\* character stands for any number of them.
ResponsesOf(p) ==
  IF p = "part003" THEN {resp \in ServiceResponses : resp.n <= 1}
  ELSE IF p \in ExternalServices THEN ServiceResponses
  ELSE CodedResponses

\* extractJSON: throws unless the text holds a parseable {...}; whatever
\* object is parsed is returned as it is, with or without its fields.
extractJSON(resp) ==
  IF resp.kind \in {"prose", "badjson"}
  THEN [ok |-> FALSE, hasChars |-> FALSE, n |-> 0]
  ELSE [ok |-> TRUE, hasChars |-> resp.kind = "object", n |-> resp.n]

\* researchHistory: rejects on a rejected call or a parser throw, else
\* resolves with the parsed object stamped with id and the inputs.
researchHistory(r, loc, resp) ==
  IF resp.kind = "transport" \/ ~extractJSON(resp).ok
  THEN [ok |-> FALSE, data |-> NoScenario]
  ELSE [ok |-> TRUE,
        data |-> HistoricalScenario(r, loc, extractJSON(resp).n,
                                    extractJSON(resp).hasChars)]

\* researchLocationAndLanguage of ./services/geminiService.
researchLocationAndLanguage(r, loc, resp) ==
  IF resp.kind = "transport"
  THEN [ok |-> FALSE, data |-> NoScenario]
  ELSE [ok |-> TRUE, data |-> HistoricalScenario(r, loc, resp.n, TRUE)]

research(p, r, loc, resp) ==
  IF p \in ExternalServices
  THEN researchLocationAndLanguage(r, loc, resp)
  ELSE researchHistory(r, loc, resp)

\* Outcomes of the speech call and of one image call.
SpeechOutcomes == {"audio", "nopayload", "throw"}
ImageOutcomes == {"image", "noimage", "throw"}

\* The promise of an async function whose body threw.
Rejected == [run |-> -1, idx |-> 0]

\* Mutant: the image call is made outside the try block, so its throw
\* rejects the promise.
generateAvatarUncaught(r, i, out) ==
  IF out = "image" THEN Url(r, i) ELSE IF out = "noimage" THEN NoUrl ELSE Rejected

\* generateAvatar: a data URI, or null for a missing part and for a throw.
generateAvatar(r, i, out) == IF out = "image" THEN Url(r, i) ELSE NoUrl

\* Mutant: the updater patches the research data it closed over instead of
\* prev, so the avatars that arrived before are lost.
MergeAvatarFromSnapshot(prev, i, url) ==
  IF prev = NoScenario THEN prev
  ELSE [prev EXCEPT !.characters =
          [j \in 1..Max(Len(prev.characters), i) |->
             IF j = i THEN OnlyAvatar(url)
             ELSE IF j <= Len(prev.characters)
                  THEN [prev.characters[j] EXCEPT !.avatarUrl = NoUrl]
                  ELSE HoleChar]]

\* The setScenario updater of a portrait completion (i counts from 1).
MergeAvatar(prev, i, url) ==
  IF prev = NoScenario THEN prev
  ELSE LET old == prev.characters
           len == Len(old)
           patched == IF i <= len /\ old[i] # HoleChar
                      THEN [old[i] EXCEPT !.avatarUrl = url]
                      ELSE OnlyAvatar(url)
       IN [prev EXCEPT !.characters =
             [j \in 1..Max(len, i) |->
                IF j = i THEN patched
                ELSE IF j <= len THEN old[j] ELSE HoleChar]]

\* Rendering scenario.characters.map throws when the list is missing; with
\* no error boundary the component tree is unmounted.
Mounted == scenario = NoScenario \/ scenario.hasCharacters

\* Mutant: the form is rendered whenever no scenario is shown.
FormShownWhileLoading == Mounted /\ scenario = NoScenario

\* {!scenario && loading === 'idle' && <form/>}
FormShown == Mounted /\ scenario = NoScenario /\ loading = "idle"

\* ------------------------------------------------------- bookkeeping
IsPending(run) ==
  \/ run.res = "pending"
  \/ run.speech = "pending"
  \/ \E i \in DOMAIN run.portraits : run.portraits[i] = "pending"

PortraitsSettled(run) ==
  \A i \in DOMAIN run.portraits : run.portraits[i] # "pending"

\* What a call returned is remembered only while a handler holds its
\* promise: for the latest run, and not in App.tsx, whose handler drops the
\* promises as soon as it has made them.
Dim(c) == IF c \in {"ok", "fail"} THEN "settled" ELSE c
Mark(r, c) == IF r = nRuns /\ prog \notin FireAndForget THEN c ELSE "settled"

Retire(run) ==
  [pc |-> run.pc, res |-> run.res,
   withImages |-> run.res = "pending" /\ run.withImages,
   loc |-> IF run.res = "pending" THEN run.loc ELSE 0,
   data |-> NoScenario,
   speech |-> IF run.speech = "pending" THEN "pending" ELSE "none",
   portraits |-> IF PortraitsSettled(run) THEN <<>>
                 ELSE [i \in DOMAIN run.portraits |-> Dim(run.portraits[i])]]

AllPending(n) == [i \in 1..n |-> "pending"]



\* ------------------------------------------------------------ actions
\* Mutant: the handler starts the speech call together with the research.
StartRunEager(loc, img) ==
  [pc |-> "research", res |-> "pending", withImages |-> img, loc |-> loc,
   data |-> NoScenario, speech |-> "pending", portraits |-> <<>>]

\* The record of a handler invocation that has just been called.
StartRun(loc, img) ==
  [pc |-> "research", res |-> "pending", withImages |-> img, loc |-> loc,
   data |-> NoScenario, speech |-> "none", portraits |-> <<>>]

\* Whether the program asks for portraits: a checkbox in part000 and
\* part001, never in part003, always elsewhere.
ImageChoices(p) ==
  IF p \in {"part000", "part001"} THEN BOOLEAN
  ELSE IF p = "part003" THEN {FALSE} ELSE {TRUE}

\* handleSearch / handleSubmit / the home form's onSubmit, up to the first
\* await. part004 leaves scenario and audio as they are.
Submit(loc, img) ==
  /\ FormShown
  /\ calls < MaxCalls
  /\ nRuns < MaxRuns
  /\ loc \in LocsOf(prog)
  /\ img \in ImageChoices(prog)
  /\ loading' = "busy"
  /\ error' = NoError
  /\ scenario' = IF prog = "part004" THEN scenario ELSE NoScenario
  /\ audio' = IF prog = "part004" THEN audio ELSE NoAudio
  /\ nRuns' = nRuns + 1
  /\ calls' = calls + 1
  /\ runs' = [r \in Runs |->
                IF r = nRuns + 1 THEN StartRun(loc, img) ELSE Retire(runs[r])]
  /\ acted' = FALSE
  /\ UNCHANGED <<probe, prog, history, includeNarrator, regen>>

\* The continuation after `await research...` when the promise rejected:
\* the catch block (an alert in part003), then setLoading('idle').
ResearchRejected(r) ==
  /\ error' = IF prog = "part003" THEN error ELSE "research failed"
  /\ loading' = "idle"
  /\ runs' = [runs EXCEPT ![r].pc = "failed", ![r].res = "rejected"]
  /\ UNCHANGED <<scenario, audio, history>>

\* part000: setScenario, setLoading('media'), launch the speech call and,
\* with images, one portrait call per character; then await allSettled.
ResearchResolved000(r, data) ==
  /\ scenario' = data
  /\ loading' = "media"
  /\ runs' = [runs EXCEPT ![r] =
       [@ EXCEPT !.pc = "media", !.res = "ok", !.data = data,
                 !.speech = "pending",
                 !.portraits = IF runs[r].withImages
                               THEN AllPending(Len(data.characters))
                               ELSE <<>>]]
  /\ UNCHANGED <<audio, error, history>>

\* App.tsx: setScenario, setLoading('media'), launch the speech call, launch
\* the portraits with data.characters.forEach, store the history, then
\* setLoading('idle') without awaiting anything. forEach on a missing list
\* and a failing localStorage.setItem throw into the catch block; with a
\* missing list generateAudio returns null before it calls the service.
ResearchResolvedApp(r, data, storageOk) ==
  /\ scenario' = data
  /\ loading' = "idle"
  /\ error' = IF ~data.hasCharacters THEN "TypeError"
              ELSE IF ~storageOk THEN "QuotaExceededError" ELSE error
  /\ runs' = [runs EXCEPT ![r] =
       [@ EXCEPT !.pc = IF data.hasCharacters /\ storageOk THEN "done" ELSE "failed",
                 !.res = "ok", !.data = data,
                 !.speech = IF data.hasCharacters THEN "pending" ELSE "none",
                 !.portraits = AllPending(Len(data.characters))]]
  /\ UNCHANGED <<audio, history>>

\* Sequential programs: await generateAudio(data) comes next; it rejects at
\* scenario.characters.slice when the list is missing.
ResearchResolvedSeq(r, data) ==
  /\ IF data.hasCharacters
     THEN /\ runs' = [runs EXCEPT ![r] =
                [@ EXCEPT !.pc = "speech", !.res = "ok", !.data = data,
                          !.speech = "pending"]]
          /\ UNCHANGED <<loading, error>>
     ELSE /\ runs' = [runs EXCEPT ![r] =
                [@ EXCEPT !.pc = "failed", !.res = "ok", !.data = data]]
          /\ error' = "TypeError"
          /\ loading' = "idle"
  /\ UNCHANGED <<scenario, audio, history>>

\* part003: setScenario(s), setLoading('media'), await generateDialogueAudio.
ResearchResolved003(r, data) ==
  /\ scenario' = data
  /\ loading' = "media"
  /\ runs' = [runs EXCEPT ![r] =
       [@ EXCEPT !.pc = "media", !.res = "ok", !.data = data,
                 !.speech = "pending"]]
  /\ UNCHANGED <<audio, error, history>>

\* Media calls the continuation after a resolved research issues at once,
\* and the image calls a sequential handler issues after its speech call.
SpeechCalls(p, data) ==
  IF p \in {"part000", "part003"} \/ data.hasCharacters THEN 1 ELSE 0
ImageCalls(withImages, data) == IF withImages THEN Len(data.characters) ELSE 0
LaunchedNow(p, withImages, data) ==
  SpeechCalls(p, data) + (IF p \in Concurrent THEN ImageCalls(withImages, data) ELSE 0)

\* The research promise of run r settles and its handler goes on.
ResearchSettles(r, resp, storageOk) ==
  /\ runs[r].res = "pending"
  /\ resp \in ResponsesOf(prog)
  /\ storageOk \/ (prog \in FireAndForget /\ resp.kind = "object")
  /\ LET got == research(prog, r, runs[r].loc, resp)
     IN IF ~got.ok THEN ResearchRejected(r) /\ calls' = calls
        ELSE /\ calls + SpeechCalls(prog, got.data)
                  + ImageCalls(runs[r].withImages, got.data) <= MaxCalls
             /\ calls' = calls + LaunchedNow(prog, runs[r].withImages, got.data)
             /\ IF prog = "part000" THEN ResearchResolved000(r, got.data)
                ELSE IF prog \in FireAndForget
                     THEN ResearchResolvedApp(r, got.data, storageOk)
                ELSE IF prog \in Sequential THEN ResearchResolvedSeq(r, got.data)
                ELSE ResearchResolved003(r, got.data)
  /\ UNCHANGED <<probe, prog, includeNarrator, regen, nRuns, acted>>


\* The scenario a sequential handler shows in the end: the research data
\* with the avatar of every character whose image call returned an image.
FinalData(run, r) ==
  [run.data EXCEPT !.characters =
     [i \in DOMAIN run.data.characters |->
        [run.data.characters[i] EXCEPT !.avatarUrl =
           IF i \in DOMAIN run.portraits /\ run.portraits[i] = "ok"
           THEN Url(r, i) ELSE NoUrl]]]

\* [finalData, ...history.filter(h => h.locationInput !== loc)].slice(0, 5)
UpdatedHistory(h, finalData) ==
  LET Other(x) == x.locationInput # finalData.locationInput
      all == <<finalData>> \o SelectSeq(h, Other)
  IN SubSeq(all, 1, IF Len(all) < 5 THEN Len(all) ELSE 5)

\* The tail of a sequential handler: setScenario, setAudio, (part000b: the
\* history and localStorage, which may throw into the catch block), and
\* setLoading('idle') in finally.
Finish(r, storageOk) ==
  LET finalData == FinalData(runs[r], r)
  IN /\ scenario' = finalData
     /\ audio' = AudioBuffer(r, TRUE)
     /\ loading' = "idle"
     /\ history' = IF prog = "part000b"
                   THEN UpdatedHistory(history, finalData) ELSE history
     /\ error' = IF storageOk THEN error ELSE "QuotaExceededError"

\* Mutant: the speech promise is awaited with Promise.all, so its rejection
\* reaches the catch block.
SpeechSettled000Rejecting(r, out) ==
  /\ audio' = IF out = "audio" THEN AudioBuffer(r, TRUE) ELSE audio
  /\ error' = IF out = "audio" THEN error ELSE "speech failed"
  /\ loading' = IF out = "audio" THEN loading ELSE "idle"
  /\ runs' = [runs EXCEPT ![r].speech =
                Mark(r, IF out = "audio" THEN "ok" ELSE "fail")]
  /\ UNCHANGED <<scenario, history>>

\* part000: generateDialogueAudio(data).then(setAudio); a rejection stays in
\* audioPromise for allSettled.
SpeechSettled000(r, out) ==
  /\ audio' = IF out = "audio" THEN AudioBuffer(r, TRUE) ELSE audio
  /\ runs' = [runs EXCEPT ![r].speech =
                Mark(r, IF out = "audio" THEN "ok" ELSE "fail")]
  /\ UNCHANGED <<loading, scenario, error, history>>

\* App.tsx: generateAudio returns null for a missing payload and for a
\* throw; generateAudio(data).then(buf => buf && setAudio(buf)).
SpeechSettledApp(r, out) ==
  /\ audio' = IF out = "audio" /\ Mounted THEN AudioBuffer(r, TRUE) ELSE audio
  /\ runs' = [runs EXCEPT ![r].speech =
                Mark(r, IF out = "audio" THEN "ok" ELSE "fail")]
  /\ UNCHANGED <<loading, scenario, error, history>>

\* Sequential programs: generateAudio throws without a payload, which ends
\* the handler in catch; else the portraits are awaited with Promise.all, or
\* (part001 without images) the handler finishes at once.
SpeechSettledSeq(r, out) ==
  IF out # "audio"
  THEN /\ error' = "speech failed"
       /\ loading' = "idle"
       /\ runs' = [runs EXCEPT ![r].pc = "failed", ![r].speech = "fail"]
       /\ UNCHANGED <<scenario, audio, history>>
  ELSE IF runs[r].withImages
  THEN /\ runs' = [runs EXCEPT ![r] =
             [@ EXCEPT !.pc = "portraits", !.speech = "ok",
                       !.portraits = AllPending(Len(runs[r].data.characters))]]
       /\ UNCHANGED <<loading, scenario, audio, error, history>>
  ELSE /\ Finish(r, TRUE)
       /\ runs' = [runs EXCEPT ![r].pc = "done", ![r].speech = "ok"]

\* part003: setAudio(a), or the catch block's alert; setLoading('idle').
SpeechSettled003(r, out) ==
  /\ audio' = IF out = "audio" THEN AudioBuffer(r, TRUE) ELSE audio
  /\ loading' = "idle"
  /\ runs' = [runs EXCEPT
       ![r].pc = IF out = "audio" THEN "done" ELSE "failed",
       ![r].speech = Mark(r, IF out = "audio" THEN "ok" ELSE "fail")]
  /\ UNCHANGED <<scenario, error, history>>

\* The speech call of run r settles.
SpeechSettles(r, out) ==
  /\ runs[r].speech = "pending"
  /\ IF prog = "part000" THEN SpeechSettled000(r, out)
     ELSE IF prog \in FireAndForget THEN SpeechSettledApp(r, out)
     ELSE IF prog \in Sequential THEN SpeechSettledSeq(r, out)
     ELSE SpeechSettled003(r, out)
  /\ calls' = IF prog \in Sequential /\ out = "audio"
              THEN calls + ImageCalls(runs[r].withImages, runs[r].data)
              ELSE calls
  /\ UNCHANGED <<probe, prog, includeNarrator, regen, nRuns, acted>>

\* The image call for character i of run r settles. part000 and App.tsx
\* patch the shown scenario at once; a sequential handler keeps the result
\* for its final setScenario. A rejected portrait promise rejects the
\* Promise.all of a sequential handler, which goes to its catch block;
\* allSettled (part000) and forEach (App.tsx) let it pass.
PortraitSettles(r, i, out) ==
  /\ i \in DOMAIN runs[r].portraits
  /\ runs[r].portraits[i] = "pending"
  /\ LET url == generateAvatar(r, i, out)
     IN IF url = Rejected /\ prog \in Sequential /\ runs[r].pc = "portraits"
        THEN /\ error' = "portrait failed"
             /\ loading' = "idle"
             /\ runs' = [runs EXCEPT ![r].pc = "failed",
                                     ![r].portraits[i] = "fail"]
             /\ UNCHANGED scenario
        ELSE /\ scenario' = IF prog \in Concurrent /\ url \notin {NoUrl, Rejected}
                                 /\ Mounted
                            THEN MergeAvatar(scenario, i, url) ELSE scenario
             /\ runs' = [runs EXCEPT ![r].portraits[i] =
                           Mark(r, IF url \notin {NoUrl, Rejected}
                                   THEN "ok" ELSE "fail")]
             /\ UNCHANGED <<loading, error>>
  /\ UNCHANGED <<probe, prog, audio, history, includeNarrator, regen, nRuns, calls,
                 acted>>

\* Mutant: the handler goes on as soon as the speech promise has settled.
Join000SpeechOnly(r) ==
  /\ runs[r].pc = "media"
  /\ runs[r].speech # "pending"
  /\ loading' = "idle"
  /\ runs' = [runs EXCEPT ![r].pc = "done"]
  /\ UNCHANGED <<scenario, audio, error, history>>

\* part000: the continuation of await Promise.allSettled([...]).
Join000(r) ==
  /\ runs[r].pc = "media"
  /\ runs[r].speech # "pending"
  /\ PortraitsSettled(runs[r])
  /\ loading' = "idle"
  /\ runs' = [runs EXCEPT ![r].pc = "done"]
  /\ UNCHANGED <<scenario, audio, error, history>>

\* Sequential programs: the continuation of await Promise.all(portraits).
JoinSeq(r, storageOk) ==
  /\ runs[r].pc = "portraits"
  /\ PortraitsSettled(runs[r])
  /\ storageOk \/ prog = "part000b"
  /\ Finish(r, storageOk)
  /\ runs' = [runs EXCEPT ![r].pc = IF storageOk THEN "done" ELSE "failed"]

Join(r, storageOk) ==
  /\ IF prog = "part000" THEN storageOk /\ Join000(r)
     ELSE prog \in Sequential /\ JoinSeq(r, storageOk)
  /\ UNCHANGED <<probe, prog, includeNarrator, regen, nRuns, calls, acted>>


\* Mutant: the reset button also sets loading back to 'idle'.
ResetToIdle ==
  /\ prog # "part003"
  /\ Mounted
  /\ scenario # NoScenario
  /\ prog \in Concurrent \/ loading = "idle"
  /\ scenario' = NoScenario
  /\ audio' = NoAudio
  /\ loading' = "idle"
  /\ includeNarrator' = TRUE
  /\ acted' = TRUE
  /\ UNCHANGED <<probe, prog, error, history, regen, runs, nRuns, calls>>

\* The "Nueva Sintonia Temporal" / "Nueva Busqueda" button under the shown
\* scenario: part000 and App.tsx render it whenever scenario is set, the
\* sequential programs only while loading is 'idle'.
Reset ==
  /\ prog # "part003"
  /\ Mounted
  /\ scenario # NoScenario
  /\ prog \in Concurrent \/ loading = "idle"
  /\ scenario' = NoScenario
  /\ audio' = NoAudio
  /\ includeNarrator' = TRUE
  /\ acted' = TRUE
  /\ UNCHANGED <<probe, prog, loading, error, history, regen, runs, nRuns, calls>>

\* The "Reintentar" button of the error banner (part004 and part003 render
\* no banner).
Retry ==
  /\ prog \notin {"part004", "part003"}
  /\ Mounted
  /\ error # NoError
  /\ error' = NoError
  /\ acted' = TRUE
  /\ UNCHANGED <<probe, prog, loading, scenario, audio, history, includeNarrator,
                 regen, runs, nRuns, calls>>

\* part000b: a button of "Sintonias Recientes" under the form.
HistorySelect(k) ==
  /\ prog = "part000b"
  /\ FormShown
  /\ k \in DOMAIN history
  /\ scenario' = history[k]
  /\ acted' = TRUE
  /\ UNCHANGED <<probe, prog, loading, audio, error, history, includeNarrator,
                 regen, runs, nRuns, calls>>

\* part004: the narrator toggle of ScenarioDisplay calls
\* regenerateWithNarrator(!includeNarrator); setLoading('busy') unmounts
\* ScenarioDisplay, whose next mount starts from useState(true).
Regenerate ==
  /\ prog = "part004"
  /\ scenario # NoScenario
  /\ loading = "idle"
  /\ calls < MaxCalls
  /\ calls' = calls + 1
  /\ regen' = IF includeNarrator THEN "without" ELSE "with"
  /\ includeNarrator' = TRUE
  /\ loading' = "busy"
  /\ acted' = TRUE
  /\ UNCHANGED <<probe, prog, scenario, audio, error, history, runs, nRuns>>

\* Mutant: a failed regeneration drops the audio that was playing.
RegenSettlesClearing(out) ==
  /\ regen # "none"
  /\ audio' = IF out = "audio"
              THEN AudioBuffer(scenario.id, regen = "with") ELSE NoAudio
  /\ error' = IF out = "audio" THEN error ELSE "Error al actualizar audio"
  /\ loading' = "idle"
  /\ regen' = "none"
  /\ UNCHANGED <<probe, prog, scenario, history, includeNarrator, runs, nRuns, calls,
                 acted>>

\* part004: the speech call of regenerateWithNarrator settles.
RegenSettles(out) ==
  /\ regen # "none"
  /\ audio' = IF out = "audio"
              THEN AudioBuffer(scenario.id, regen = "with") ELSE audio
  /\ error' = IF out = "audio" THEN error ELSE "Error al actualizar audio"
  /\ loading' = "idle"
  /\ regen' = "none"
  /\ UNCHANGED <<probe, prog, scenario, history, includeNarrator, runs, nRuns, calls,
                 acted>>

\* part003: resetAllStates, behind the navigation buttons and "Volver".
ResetAllStates ==
  /\ prog = "part003"
  /\ scenario' = NoScenario
  /\ audio' = NoAudio
  /\ loading' = "idle"
  /\ acted' = TRUE
  /\ UNCHANGED <<probe, prog, error, history, includeNarrator, regen, runs, nRuns,
                 calls>>

Next ==
  \/ \E loc \in Locs, img \in BOOLEAN : Submit(loc, img)
  \/ \E r \in Runs, resp \in CodedResponses, storageOk \in BOOLEAN :
       ResearchSettles(r, resp, storageOk)
  \/ \E r \in Runs, out \in SpeechOutcomes : SpeechSettles(r, out)
  \/ \E r \in Runs, i \in 1..MaxChars, out \in ImageOutcomes :
       PortraitSettles(r, i, out)
  \/ \E r \in Runs, storageOk \in BOOLEAN : Join(r, storageOk)
  \/ Reset
  \/ Retry
  \/ \E k \in 1..5 : HistorySelect(k)
  \/ Regenerate
  \/ \E out \in SpeechOutcomes : RegenSettles(out)
  \/ ResetAllStates

Spec == Init /\ [][Next]_vars

\* ------------------------------------------------------------- claims
\* The run the user submitted last, and whether its handler has returned.
Latest == runs[nRuns]
Returned(run) == run.pc \in {"done", "failed"}
MediaSettled(run) == run.speech # "pending" /\ PortraitsSettled(run)

\* C1: in the concurrent orchestrators (part000, App.tsx) the handler of a
\* run whose research succeeded sets loading back to 'idle' and returns only
\* after the speech call and every portrait call of that run have settled.
C1_IdleOnlyAfterMediaSettled ==
  prog \in Concurrent =>
    \A r \in Runs :
      (runs[r].res = "ok" /\ Returned(runs[r])) => MediaSettled(runs[r])

\* Values a state slot may hold when only run r has written it.
AvatarRuns(s) == {s.characters[i].avatarUrl.run : i \in DOMAIN s.characters}
OnlyFrom(r) ==
  /\ scenario.id \in {0, r}
  /\ audio.run \in {0, r}
  /\ AvatarRuns(scenario) \subseteq {0, r}

\* C2: in App.tsx and in the home form of part003, once the research of a
\* later query has resolved, scenario, audio and every avatarUrl hold only
\* values produced by that query's calls, or are absent: no late result of
\* an earlier query overwrites or patches them.
C2_LateResultsIgnored ==
  (prog \in {"App", "part003"} /\ nRuns >= 2 /\ Latest.res = "ok")
    => OnlyFrom(nRuns)

\* C3: in part000, App.tsx and part004, from the submission of a query
\* until its research call settles, scenario, audio and error are null.
C3_ClearedWhileResearching ==
  (prog \in {"part000", "App", "part004"} /\ nRuns >= 1
     /\ Latest.res = "pending")
    => (scenario = NoScenario /\ audio = NoAudio /\ error = NoError)

\* C4: in every program, a run has issued a speech or portrait call only if
\* its research call resolved successfully, and a run whose research call
\* failed has issued no media call at all.
C4_ResearchPrecedesMedia ==
  \A r \in Runs :
    /\ (runs[r].speech # "none" \/ runs[r].portraits # <<>>)
         => runs[r].res = "ok"
    /\ runs[r].res \in {"pending", "rejected"}
         => (runs[r].speech = "none" /\ runs[r].portraits = <<>>)
    /\ calls >= nRuns
    /\ (\A q \in Runs : runs[q].res \in {"none", "pending", "rejected"})
         => calls = nRuns

\* A run whose research failed next to a run whose research succeeded and
\* whose speech call and portrait calls are out.
C4_Witness ==
  \E r, q \in Runs :
    /\ runs[r].res = "rejected"
    /\ runs[q].res = "ok"
    /\ runs[q].speech = "pending"
    /\ Len(runs[q].portraits) >= 2
    /\ calls = nRuns + 1 + Len(runs[q].portraits)

\* C5: in part000 and App.tsx, whenever error is set no scenario is shown,
\* whatever the research call returned.
C5_ErrorMeansNoScenario ==
  (prog \in Concurrent /\ error # NoError) => scenario = NoScenario


\* A media call of run r ends without a payload or with a throw.
SpeechFails(r) ==
  \E out \in SpeechOutcomes \ {"audio"} : SpeechSettles(r, out)
PortraitFails(r, i) ==
  \E out \in ImageOutcomes \ {"image"} : PortraitSettles(r, i, out)

\* C6: in the concurrent orchestrators (part000, App.tsx) the failure of a
\* speech call or of a portrait call leaves error and the whole scenario as
\* they were.
C6_MediaFailureIsSilent ==
  [][(prog \in Concurrent
        /\ \E r \in Runs : SpeechFails(r) \/ \E i \in 1..MaxChars : PortraitFails(r, i))
       => (error' = error /\ scenario' = scenario)]_vars

\* part000 in its media phase: the speech call and a portrait call of the
\* shown scenario have failed, another portrait has arrived, no error.
C6_Witness ==
  /\ prog = "part000"
  /\ loading = "media"
  /\ nRuns >= 1
  /\ Latest.speech = "fail"
  /\ \E i, j \in DOMAIN Latest.portraits :
       /\ Latest.portraits[i] = "fail"
       /\ Latest.portraits[j] = "ok"
       /\ scenario.id = nRuns
       /\ scenario.characters[j].avatarUrl = Url(nRuns, j)
  /\ error = NoError

\* C7: in the sequential programs (part000b, part001, part004), when the
\* research of the latest run succeeded and its speech call brought no audio,
\* the handler ends with the scenario shown, audio null and no error.
C7_ScenarioShownWithoutAudio ==
  (prog \in Sequential /\ nRuns >= 1 /\ ~acted
     /\ Latest.res = "ok" /\ Latest.speech = "fail" /\ Returned(Latest))
    => (scenario # NoScenario /\ audio = NoAudio /\ error = NoError)

\* C8: part000 with portraits requested and no button used since the
\* submission: when the handler has returned after a successful research,
\* every media call has settled, loading is 'idle', error is null, the
\* scenario is shown, audio is set exactly if the speech call succeeded and
\* character i has an avatarUrl exactly if portrait call i succeeded.
C8_AllSettledComplete ==
  (prog = "part000" /\ nRuns >= 1 /\ ~acted
     /\ Latest.res = "ok" /\ Latest.withImages /\ Returned(Latest))
    => /\ Latest.pc = "done"
       /\ MediaSettled(Latest)
       /\ loading = "idle"
       /\ error = NoError
       /\ scenario # NoScenario
       /\ scenario.id = nRuns
       /\ (audio # NoAudio) <=> (Latest.speech = "ok")
       /\ audio \in {NoAudio, AudioBuffer(nRuns, TRUE)}
       /\ DOMAIN scenario.characters = DOMAIN Latest.portraits
       /\ \A i \in DOMAIN scenario.characters :
            /\ (scenario.characters[i].avatarUrl # NoUrl)
                 <=> (Latest.portraits[i] = "ok")
            /\ scenario.characters[i].avatarUrl \in {NoUrl, Url(nRuns, i)}

\* The speech call failed and two of three portrait calls failed: complete,
\* no audio, exactly one avatar.
C8_Witness ==
  /\ prog = "part000"
  /\ nRuns >= 1
  /\ ~acted
  /\ Latest.pc = "done"
  /\ Latest.speech = "fail"
  /\ Len(Latest.portraits) = 3
  /\ Cardinality({i \in 1..3 : Latest.portraits[i] = "fail"}) = 2
  /\ loading = "idle"
  /\ audio = NoAudio
  /\ Cardinality({i \in 1..3 : scenario.characters[i].avatarUrl # NoUrl}) = 1

\* Every field of a character but avatarUrl.
Identity(c) ==
  [name |-> c.name, gender |-> c.gender, voice |-> c.voice,
   visualDescription |-> c.visualDescription, bio |-> c.bio]
\* Every field of a scenario but characters.
Header(s) ==
  [id |-> s.id, locationInput |-> s.locationInput, context |-> s.context,
   script |-> s.script, sources |-> s.sources, hasCharacters |-> s.hasCharacters]

\* C9: a portrait completion for character i changes nothing when scenario
\* is null, and otherwise nothing but characters[i].avatarUrl: the other
\* entries, the other fields of entry i, the length of the list and the
\* other scenario fields stay as they are.
C9_MergeChangesOnlyOneAvatar ==
  [][\A r \in Runs, i \in 1..MaxChars, out \in ImageOutcomes :
       (prog \in Concurrent /\ PortraitSettles(r, i, out))
         => IF scenario = NoScenario THEN scenario' = NoScenario
            ELSE /\ Header(scenario') = Header(scenario)
                 /\ Len(scenario'.characters) = Len(scenario.characters)
                 /\ \A j \in DOMAIN scenario.characters :
                      /\ Identity(scenario'.characters[j])
                           = Identity(scenario.characters[j])
                      /\ j # i => scenario'.characters[j] = scenario.characters[j]
    ]_vars

\* C10: in the concurrent orchestrators, when portrait call i of the run
\* whose scenario is shown succeeds, characters[i].avatarUrl is set in that
\* step, whatever else is still pending, and the avatarUrl of every other
\* character is what it was.
C10_AvatarShownOnArrival ==
  [][\A r \in Runs, i \in 1..MaxChars :
       (prog \in Concurrent /\ scenario.id = r /\ Mounted
          /\ PortraitSettles(r, i, "image"))
         => /\ DOMAIN scenario'.characters = DOMAIN scenario.characters
            /\ scenario'.characters[i].avatarUrl = Url(r, i)
            /\ \A j \in DOMAIN scenario.characters \ {i} :
                 scenario'.characters[j].avatarUrl
                   = scenario.characters[j].avatarUrl
    ]_vars

\* Three characters: portrait 2 has arrived first and is shown, portraits 1
\* and 3 and the speech call are still pending.
C10_Witness ==
  /\ prog \in Concurrent
  /\ nRuns >= 1
  /\ scenario.id = nRuns
  /\ Len(scenario.characters) = 3
  /\ scenario.characters[2].avatarUrl = Url(nRuns, 2)
  /\ scenario.characters[1].avatarUrl = NoUrl
  /\ scenario.characters[3].avatarUrl = NoUrl
  /\ Len(Latest.portraits) = 3
  /\ Latest.portraits[1] = "pending"
  /\ Latest.portraits[3] = "pending"
  /\ Latest.speech = "pending"

\* A step that shows another scenario shows it without avatars.
FirstShownBare ==
  (scenario'.id # scenario.id /\ scenario' # NoScenario)
    => \A j \in DOMAIN scenario'.characters :
         scenario'.characters[j].avatarUrl = NoUrl
\* A step that keeps the scenario writes an avatarUrl only as the success of
\* that character's portrait call of the same run, and only over an absent one.
AvatarWrittenByOwnCall ==
  (scenario # NoScenario /\ scenario'.id = scenario.id)
    => \A j \in DOMAIN scenario'.characters :
         (j \notin DOMAIN scenario.characters
            \/ scenario'.characters[j].avatarUrl # scenario.characters[j].avatarUrl)
           => /\ j \in DOMAIN scenario.characters
              /\ scenario.characters[j].avatarUrl = NoUrl
              /\ scenario'.characters[j].avatarUrl = Url(scenario.id, j)
              /\ PortraitSettles(scenario.id, j, "image")
\* C11: in part000 and App.tsx a scenario is first shown without any avatar,
\* and while it stays shown an avatarUrl changes only once, from absent to
\* the image of that character's own portrait call of the same run, in the
\* step in which that call succeeds.
C11_AvatarWrittenOnceByOwnPortrait ==
  [][(prog \in Concurrent) => (FirstShownBare /\ AvatarWrittenByOwnCall)]_vars

\* C12: generateAvatar resolves to a data URI or to null for every outcome
\* of the image call, and in no program does a settling portrait call set
\* error, change loading or end the handler: the promise it belongs to and
\* the Promise.all / allSettled around it are not rejected by it.
C12_PortraitNeverRejects ==
  [][\A r \in Runs, i \in 1..MaxChars, out \in ImageOutcomes :
       PortraitSettles(r, i, out)
         => /\ generateAvatar(r, i, out) \in {NoUrl, Url(r, i)}
            /\ error' = error
            /\ loading' = loading
            /\ runs'[r].pc = runs[r].pc
    ]_vars

\* A sequential handler has finished with the scenario shown although one of
\* its portrait calls failed and another one succeeded.
C12_Witness ==
  /\ prog \in Sequential
  /\ nRuns >= 1
  /\ Latest.pc = "done"
  /\ \E i, j \in DOMAIN Latest.portraits :
       /\ Latest.portraits[i] = "fail"
       /\ Latest.portraits[j] = "ok"
       /\ scenario.id = nRuns
       /\ scenario.characters[i].avatarUrl = NoUrl
       /\ scenario.characters[j].avatarUrl = Url(nRuns, j)
  /\ error = NoError
  /\ loading = "idle"

\* ---------------------------------------------- a helper on its own
\* The pipeline variables, at rest while a helper function is applied to
\* inputs of its own.
pipeline == <<prog, loading, scenario, audio, error, history, includeNarrator,
              regen, runs, nRuns, calls, acted>>
Parked ==
  /\ prog = "App"
  /\ loading = "idle"
  /\ scenario = NoScenario
  /\ audio = NoAudio
  /\ error = NoError
  /\ history = <<>>
  /\ includeNarrator = TRUE
  /\ regen = "none"
  /\ runs = [r \in Runs |-> NoRun]
  /\ nRuns = 0
  /\ calls = 0
  /\ acted = FALSE

SeqsUpTo(S, n) == UNION {[1..k -> S] : k \in 0..n}
Min(a, b) == IF a <= b THEN a ELSE b

\* ---------------------------------------------- speech request assembly
MaxCast == 3     \* characters of the scenario handed to generateAudio
MaxScript == 2   \* lines of its script

\* The generateAudio functions of src/: App.tsx (first and second program),
\* part_000 (second program), part_001, part_004.
TtsVariants == {"AppA", "AppB", "part000b", "part001", "part004"}

\* Character names, and a speaker that is nobody's name.
Names == {"A", "B", "C"}
Stranger == "X"

\* characters[k].voice, and a voice named in the code.
Voice(k) == [preset |-> "character", idx |-> k]
Preset(name) == [preset |-> name, idx |-> 0]

\* A scenario's characters (the k-th has voice k) and script (the i-th line
\* has text i; the narrator introduction is text 0).
Cast(names) == [k \in DOMAIN names |-> [name |-> names[k], voice |-> Voice(k)]]
Script(speakers) ==
  [i \in DOMAIN speakers |-> [speaker |-> speakers[i], text |-> i]]
Casts == {Cast(names) : names \in SeqsUpTo(Names, MaxCast)}
Scripts == {Script(sp) : sp \in SeqsUpTo(Names \cup {Stranger}, MaxScript)}

\* A speaker label: a fixed word, or a word with a number (`Char${i}`,
\* `Speaker${i}`, `Speaker ${String.fromCharCode(65 + i)}`).
Label(base, idx) == [base |-> base, idx |-> idx]

\* characters.findIndex(c => c.name === speaker), counting from 0.
findIndex(cast, speaker) ==
  IF \E k \in DOMAIN cast : cast[k].name = speaker
  THEN (CHOOSE k \in DOMAIN cast :
          /\ cast[k].name = speaker
          /\ \A j \in 1..(k - 1) : cast[j].name # speaker) - 1
  ELSE -1

\* charToSafeName.get(speaker) of part_001: forEach(set) keeps the last
\* character of a name.
lastIndex(cast, speaker) ==
  IF \E k \in DOMAIN cast : cast[k].name = speaker
  THEN (CHOOSE k \in DOMAIN cast :
          /\ cast[k].name = speaker
          /\ \A j \in (k + 1)..Len(cast) : cast[j].name # speaker) - 1
  ELSE -1

\* scenario.characters.slice(0, 2).map((char, i) => ({speaker: base + i, ...}))
firstTwo(base, cast) ==
  [k \in 1..Min(2, Len(cast)) |->
     [speaker |-> Label(base, k - 1), voice |-> cast[k].voice]]

\* speakerVoiceConfigs of the request.
speakerVoiceConfigs(v, cast) ==
  CASE v = "AppA" ->
         << [speaker |-> Label("Narrador", 0),
             voice |-> IF Len(cast) >= 1 THEN cast[1].voice ELSE Preset("Charon")],
            [speaker |-> Label("Personaje", 0),
             voice |-> IF Len(cast) >= 2 THEN cast[2].voice ELSE Preset("Kore")] >>
    [] v = "AppB" ->
         IF Len(cast) < 2
         THEN Append(firstTwo("Speaker", cast),
                     [speaker |-> Label("Speaker", 1), voice |-> Preset("zephyr")])
         ELSE firstTwo("Speaker", cast)
    [] v \in {"part000b", "part004"} ->
         <<[speaker |-> Label("Narrador", 0), voice |-> Preset("charon")]>>
           \o firstTwo("Char", cast)
    [] v = "part001" -> firstTwo("Speaker letter", cast)

\* The label a script line is tagged with.
lineLabel(v, cast, speaker) ==
  LET charIdx == findIndex(cast, speaker)
      safeIdx == IF charIdx = -1 THEN 0 ELSE charIdx
  IN CASE v = "AppA" ->
            IF charIdx <= 0 THEN Label("Narrador", 0) ELSE Label("Personaje", 0)
       [] v = "AppB" -> Label("Speaker", safeIdx)
       [] v \in {"part000b", "part004"} -> Label("Char", safeIdx)
       [] v = "part001" ->
            IF lastIndex(cast, speaker) = -1 THEN Label("Speaker letter", 0)
            ELSE Label("Speaker letter", lastIndex(cast, speaker))

\* The label of the narrator introduction, and whether there is one.
introLabel(v) == IF v = "AppB" THEN Label("Speaker", 0) ELSE Label("Narrador", 0)
hasIntro(v, include) == v # "part001" /\ (v = "part004" => include)

\* A transcript that leaves out the lines of unknown speakers.
ttsTextSkippingStrangers(v, cast, script, include) ==
  LET known == SelectSeq(script, LAMBDA l : findIndex(cast, l.speaker) # -1)
  IN (IF hasIntro(v, include)
      THEN <<[speaker |-> introLabel(v), text |-> 0]>> ELSE <<>>)
       \o [i \in DOMAIN known |->
             [speaker |-> lineLabel(v, cast, known[i].speaker),
              text |-> known[i].text]]

\* ttsText / dialogueText, line by line.
ttsText(v, cast, script, include) ==
  (IF hasIntro(v, include)
   THEN <<[speaker |-> introLabel(v), text |-> 0]>> ELSE <<>>)
    \o [i \in DOMAIN script |->
          [speaker |-> lineLabel(v, cast, script[i].speaker),
           text |-> script[i].text]]

\* generateAudio is handed a scenario; only part_004 takes includeNarrator.
TtsInputs ==
  {[fn |-> "tts", variant |-> v, cast |-> c, script |-> sc, include |-> inc,
    done |-> FALSE, configs |-> <<>>, text |-> <<>>] :
     v \in TtsVariants, c \in Casts, sc \in Scripts, inc \in BOOLEAN}

InitTts ==
  /\ Parked
  /\ probe \in {t \in TtsInputs : t.variant # "part004" => t.include}

\* generateAudio up to the generateContent call.
Assemble ==
  /\ probe.fn = "tts"
  /\ ~probe.done
  /\ probe' = [probe EXCEPT
       !.done = TRUE,
       !.configs = speakerVoiceConfigs(probe.variant, probe.cast),
       !.text = ttsText(probe.variant, probe.cast, probe.script, probe.include)]
  /\ UNCHANGED pipeline

NextTts == Assemble

SpecTts == InitTts /\ [][NextTts]_vars

\* ---------------------------------------------- claims on the speech request
\* The label under which characters[k] speaks (k = 0, 1): the label declared
\* with characters[k].voice.
SlotLabel(v, k) ==
  CASE v = "AppA" -> IF k = 0 THEN Label("Narrador", 0) ELSE Label("Personaje", 0)
    [] v = "AppB" -> Label("Speaker", k)
    [] v \in {"part000b", "part004"} -> Label("Char", k)
    [] v = "part001" -> Label("Speaker letter", k)

Assembled == probe.fn = "tts" /\ probe.done

\* The transcript line of the i-th script entry.
LineOf(i) == probe.text[Len(probe.text) - Len(probe.script) + i]

\* C13: a script line whose speaker is no character's name is tagged with
\* the slot-0 label, and a line whose speaker is first matched by
\* characters[k], k in {0, 1}, is tagged with the label of slot k.
C13_SpeakerSlots ==
  Assembled =>
    /\ Len(probe.text) >= Len(probe.script)
    /\ \A i \in DOMAIN probe.script :
         LET k == findIndex(probe.cast, probe.script[i].speaker)
         IN /\ k = -1 => LineOf(i).speaker = SlotLabel(probe.variant, 0)
            /\ k \in {0, 1} => LineOf(i).speaker = SlotLabel(probe.variant, k)

\* C14: the voice configuration of a request has at most 2 (speaker label,
\* voice) entries, and the narrator introduction is spoken under the label
\* of slot 0, not under an entry of its own.
C14_AtMostTwoVoices ==
  Assembled =>
    /\ Len(probe.configs) <= 2
    /\ hasIntro(probe.variant, probe.include)
         => probe.text[1].speaker = SlotLabel(probe.variant, 0)

\* C15: the transcript is the narrator introduction first, when it is
\* included, followed by exactly one tagged line per script entry, in script
\* order and with the entry's text; nothing is dropped, duplicated or
\* reordered.
C15_TranscriptFollowsScript ==
  Assembled =>
    LET n == Len(probe.script)
        m == Len(probe.text)
    IN /\ m \in {n, n + 1}
       /\ m = n + 1 => probe.text[1].text = 0
       /\ probe.variant = "part004" => (m = n + 1 <=> probe.include)
       /\ \A i \in 1..n :
            /\ LineOf(i).text = probe.script[i].text
            /\ LineOf(i).speaker.base \in
                 {"Narrador", "Personaje", "Speaker", "Char", "Speaker letter"}

C15_Witness ==
  /\ Assembled
  /\ Len(probe.script) >= 2
  /\ Len(probe.text) = Len(probe.script) + 1
  /\ probe.script[1].speaker = Stranger
  /\ probe.script[2].speaker # Stranger
  /\ LineOf(2).text = 2

\* ---------------------------------------------- PCM decoding
MaxBytes == 4    \* bytes of the decoded base64 payload

\* decodeBase64 gives a Uint8Array over a buffer of its own (byteOffset 0).
\* The byte values at the ends and in the middle of the range.
Bytes == {0, 1, 127, 128, 255}
Payloads == SeqsUpTo(Bytes, MaxBytes)

\* decodeAudioToBuffer(data, ctx) of App.tsx, part_000 and part_004 has one
\* channel; part_001 takes numChannels (its caller passes 1).
DecodeVariants == {"App", "part001"}
Channels == {1, 2}

\* An element of an Int16Array over little-endian bytes.
ToInt16(lo, hi) ==
  IF lo + 256 * hi >= 32768 THEN lo + 256 * hi - 65536 ELSE lo + 256 * hi

\* new Int16Array(data.buffer, data.byteOffset, data.byteLength / 2): the
\* length is truncated to an integer (ToIndex).
Int16Array(data) ==
  [i \in 1..(Len(data) \div 2) |-> ToInt16(data[2 * i - 1], data[2 * i])]

\* x / 32768.0 stored in a Float32Array: exact, kept as a fraction.
Sample(x) == [num |-> x, den |-> 32768]

\* decodeAudioToBuffer: createBuffer(numChannels, frameCount, sampleRate)
\* takes the integer part of frameCount and rejects a length of 0 frames
\* (NotSupportedError); channel c, frame i (from 0) is
\* dataInt16[i * numChannels + c] / 32768.0.
decodeAudioToBuffer(data, numChannels) ==
  LET dataInt16 == Int16Array(data)
      frameCount == Len(dataInt16) \div numChannels
  IN IF frameCount = 0
     THEN [error |-> "NotSupportedError", channels |-> <<>>]
     ELSE [error |-> "none",
           channels |->
             [c \in 1..numChannels |->
                [i \in 1..frameCount |->
                   Sample(dataInt16[(i - 1) * numChannels + (c - 1) + 1])]]]

DecodeInputs ==
  {[fn |-> "decode", variant |-> v, data |-> d, numChannels |-> n,
    done |-> FALSE, out |-> [error |-> "none", channels |-> <<>>]] :
     v \in DecodeVariants, d \in Payloads, n \in Channels}

InitDecode ==
  /\ Parked
  /\ probe \in {t \in DecodeInputs : t.variant = "App" => t.numChannels = 1}

Decode ==
  /\ probe.fn = "decode"
  /\ ~probe.done
  /\ probe' = [probe EXCEPT
       !.done = TRUE,
       !.out = decodeAudioToBuffer(probe.data, probe.numChannels)]
  /\ UNCHANGED pipeline

NextDecode == Decode

SpecDecode == InitDecode /\ [][NextDecode]_vars

\* ---------------------------------------------- claims on PCM decoding
Decoded == probe.fn = "decode" /\ probe.done

\* lo + 256 * hi reduced to [-32768, 32767].
Reduced(lo, hi) == ((lo + 256 * hi + 32768) % 65536) - 32768

\* C16: an even-length payload read as N 16-bit little-endian samples
\* decodes without error to N / channels frames per channel, channel c at
\* frame i holding int16[i * channels + c] / 32768, a value in [-1.0, 1.0).
C16_DecodeSamples ==
  (Decoded /\ Len(probe.data) % 2 = 0) =>
    LET N == Len(probe.data) \div 2
        ch == probe.numChannels
        out == probe.out
    IN /\ out.error = "none"
       /\ Len(out.channels) = ch
       /\ \A c \in 1..ch :
            /\ N % ch = 0 => Len(out.channels[c]) * ch = N
            /\ \A i \in 1..Len(out.channels[c]) :
                 LET k == (i - 1) * ch + (c - 1)
                     s == out.channels[c][i]
                 IN /\ s.den = 32768
                    /\ s.num = Reduced(probe.data[2 * k + 1], probe.data[2 * k + 2])
                    /\ -s.den <= s.num /\ s.num < s.den

\* C17: a payload of odd length 2k+1 decodes without error to the same
\* samples as its first 2k bytes.
C17_OddLengthTruncated ==
  (Decoded /\ Len(probe.data) % 2 = 1) =>
    /\ probe.out.error = "none"
    /\ probe.out =
         decodeAudioToBuffer(SubSeq(probe.data, 1, Len(probe.data) - 1),
                             probe.numChannels)
    /\ Len(probe.out.channels) = probe.numChannels
    /\ probe.numChannels = 1
         => Len(probe.out.channels[1]) = (Len(probe.data) - 1) \div 2

\* ---------------------------------------------- response text parsing
MaxText == 5     \* pieces of a response text

\* A response text is a sequence of pieces: an opening brace, a closing
\* brace, "m" the text of an object member without braces, "s" a JSON scalar
\* such as 42, "p" prose that is not JSON, "f" a fence marker (```json or
\* ```). White space is left out: trim() and JSON.parse skip it.
Pieces == {"{", "}", "m", "s", "p", "f"}
Texts == SeqsUpTo(Pieces, MaxText)

\* The parsers of src/: extractJSON of App.tsx (both programs),
\* JSON.parse(cleanJSON(..)) of part_000, extractJSON of part_001 (part_004
\* has the same expression inline).
ParseVariants == {"App", "part000b", "part001"}

\* Opening minus closing braces among the first i pieces.
Depth(t, i) ==
  Cardinality({j \in 1..i : t[j] = "{"}) - Cardinality({j \in 1..i : t[j] = "}"})

\* The text of one JSON object: braces balanced and closed only at the end,
\* members and nested objects inside.
IsObjectText(t) ==
  /\ Len(t) >= 2
  /\ t[1] = "{"
  /\ \A j \in 1..Len(t) : t[j] \in {"{", "}", "m"}
  /\ \A j \in 1..(Len(t) - 1) : Depth(t, j) >= 1
  /\ Depth(t, Len(t)) = 0

Thrown == [ok |-> FALSE, value |-> <<>>]

\* JSON.parse: the value of a JSON text (an object or a scalar), else throws.
JSONparse(t) ==
  IF IsObjectText(t) \/ t = <<"s">> THEN [ok |-> TRUE, value |-> t] ELSE Thrown

\* .replace(/```json/gi, '').replace(/```/g, '')
withoutFences(t) == SelectSeq(t, LAMBDA x : x # "f")

\* indexOf('{') and lastIndexOf('}'), counting from 0, -1 when absent.
indexOf(t) ==
  IF \E j \in DOMAIN t : t[j] = "{"
  THEN (CHOOSE j \in DOMAIN t : t[j] = "{" /\ \A i \in 1..(j - 1) : t[i] # "{") - 1
  ELSE -1
lastIndexOf(t) ==
  IF \E j \in DOMAIN t : t[j] = "}"
  THEN (CHOOSE j \in DOMAIN t : t[j] = "}" /\ \A i \in (j + 1)..Len(t) : t[i] # "}") - 1
  ELSE -1

\* String.prototype.substring(start, end): both clamped to 0..length and
\* swapped when start > end.
substring(t, start, end) ==
  LET a == Min(Max(start, 0), Len(t))
      b == Min(Max(end, 0), Len(t))
  IN SubSeq(t, Min(a, b) + 1, Max(a, b))

\* text.match(/\{[\s\S]*\}/): from the first opening brace to the last
\* closing brace after it; no match without such a pair.
matchBraces(t) ==
  IF indexOf(t) # -1 /\ indexOf(t) < lastIndexOf(t)
  THEN [found |-> TRUE, text |-> SubSeq(t, indexOf(t) + 1, lastIndexOf(t) + 1)]
  ELSE [found |-> FALSE, text |-> <<>>]

\* extractJSON of App.tsx: any throw becomes the format error.
extractJSONApp(t) ==
  IF matchBraces(t).found THEN JSONparse(matchBraces(t).text) ELSE Thrown

\* extractJSON of part_001.
extractJSON001(t) ==
  LET jsonString == withoutFences(t)
  IN JSONparse(substring(jsonString, indexOf(jsonString),
                         lastIndexOf(jsonString) + 1))

\* JSON.parse(cleanJSON(rawText)) of part_000.
cleanJSON(t) == withoutFences(t)

parseResponse(v, t) ==
  CASE v = "App" -> extractJSONApp(t)
    [] v = "part001" -> extractJSON001(t)
    [] v = "part000b" -> JSONparse(cleanJSON(t))

\* researchHistory after the model call: a parser throw rejects; any parsed
\* value is spread into the object it returns.
researchHistoryOf(v, t) ==
  IF parseResponse(v, t).ok
  THEN [ok |-> TRUE, data |-> parseResponse(v, t).value]
  ELSE [ok |-> FALSE, data |-> <<>>]

ParseInputs ==
  {[fn |-> "parse", variant |-> v, text |-> t, done |-> FALSE,
    out |-> [ok |-> FALSE, data |-> <<>>]] :
     v \in ParseVariants, t \in Texts}

InitParse ==
  /\ Parked
  /\ probe \in ParseInputs

Parse ==
  /\ probe.fn = "parse"
  /\ ~probe.done
  /\ probe' = [probe EXCEPT
       !.done = TRUE,
       !.out = researchHistoryOf(probe.variant, probe.text)]
  /\ UNCHANGED pipeline

NextParse == Parse

SpecParse == InitParse /\ [][NextParse]_vars

\* ---------------------------------------------- claims on parsing
Parsed == probe.fn = "parse" /\ probe.done

BraceFree(t) == \A j \in DOMAIN t : t[j] \notin {"{", "}"}

\* C18: a JSON object text J inside fence markers and brace-free leading and
\* trailing prose is parsed to the object that J alone gives.
C18_NoiseAroundObjectIgnored ==
  Parsed =>
    \A a \in 1..Len(probe.text), b \in 1..Len(probe.text) :
      (/\ a < b
       /\ IsObjectText(SubSeq(probe.text, a, b))
       /\ BraceFree(SubSeq(probe.text, 1, a - 1))
       /\ BraceFree(SubSeq(probe.text, b + 1, Len(probe.text))))
        => /\ probe.out.ok
           /\ probe.out.data = JSONparse(SubSeq(probe.text, a, b)).value

\* C19: a text without an opening brace followed by a closing brace makes
\* the research stage fail; no object is returned.
C19_NoBracePairFails ==
  Parsed =>
    ((~\E i \in DOMAIN probe.text, j \in DOMAIN probe.text :
         i < j /\ probe.text[i] = "{" /\ probe.text[j] = "}")
      => ~probe.out.ok)

\* C20: a parsed response object without a characters list, or with an
\* empty one, makes the research stage fail: no run's research resolves
\* with such a scenario.
C20_IncompleteObjectRejected ==
  \A r \in Runs :
    runs[r].res = "ok"
      => /\ runs[r].data.hasCharacters
         /\ Len(runs[r].data.characters) >= 1

\* ---------------------------------------------- claims on the controls
\* loading = 'idle', scenario = null, audio = null, error = null.
InitialIdle(l, s, a, e) ==
  l = "idle" /\ s = NoScenario /\ a = NoAudio /\ e = NoError

\* C21: in part000 and App.tsx, after the retry button of the error banner
\* the pipeline state is the initial idle state: loading 'idle', scenario,
\* audio and error null.
C21_RetryResetsPipeline ==
  [][(prog \in Concurrent /\ Retry)
       => InitialIdle(loading', scenario', audio', error')]_vars

C23_RegenerateTouchesAudioOnly ==
  [][/\ Regenerate
          => /\ scenario # NoScenario
             /\ calls' = calls + 1
             /\ runs' = runs
             /\ scenario' = scenario /\ audio' = audio
     /\ \A out \in SpeechOutcomes :
          RegenSettles(out)
            => /\ calls' = calls
               /\ runs' = runs
               /\ scenario' = scenario
               /\ audio' = IF out = "audio"
                           THEN AudioBuffer(scenario.id, regen = "with")
                           ELSE audio
     /\ regen' # "none" => scenario' # NoScenario
    ]_vars

\* A regeneration without narrator has succeeded and a later one has failed:
\* the buffer without narrator is still there.
C23_Witness ==
  /\ prog = "part004"
  /\ regen = "none"
  /\ scenario # NoScenario
  /\ audio = AudioBuffer(scenario.id, FALSE)
  /\ error = "Error al actualizar audio"

\* The runs with a call in flight.
InFlight == {r \in Runs : IsPending(runs[r])}

\* One run at most has a call in flight, and loading is not 'idle' while
\* one has.
OneRunAtATime ==
  /\ Cardinality(InFlight) <= 1
  /\ InFlight # {} => loading # "idle"

\* C24: in part000 (first program) handleSearch starts only with loading
\* 'idle' and scenario null, loading stays non-idle until every media call
\* of the run has settled, at most one run is in flight, and no call of an
\* earlier run is pending when a later run starts.
C24_SingleRunInFlight ==
  [][prog = "part000"
       => /\ OneRunAtATime'
          /\ nRuns' = nRuns + 1
               => /\ loading = "idle" /\ scenario = NoScenario
                  /\ InFlight = {}
                  /\ InFlight' = {nRuns'}
     ]_vars

\* The second run of part000 has started after the first one launched its
\* speech call and two portrait calls, the reset button having been used.
C24_Witness ==
  /\ prog = "part000"
  /\ nRuns = 2
  /\ runs[2].res = "pending"
  /\ runs[1].pc = "done"
  /\ calls >= 5
  /\ acted = FALSE
  /\ loading = "busy"

\* C25: in part000 and App.tsx an audio buffer is held only while a scenario
\* is held: audio # null implies scenario # null.
C25_AudioOnlyWithScenario ==
  (prog \in Concurrent /\ audio # NoAudio) => scenario # NoScenario

\* C26: in part000 one of the four top-level views is always rendered: the
\* form, the research spinner, the scenario display or the error banner.
C26_SomeViewRendered ==
  prog = "part000"
    => \/ scenario = NoScenario /\ loading = "idle"
       \/ loading = "busy"
       \/ scenario # NoScenario
       \/ error # NoError

\* The speaker labels declared in the voice configuration of the request.
Declared == {probe.configs[k].speaker : k \in DOMAIN probe.configs}

\* C27: every speaker label of the assembled transcript is declared in the
\* voice configuration of the same request.
C27_TranscriptLabelsDeclared ==
  Assembled => \A i \in DOMAIN probe.text : probe.text[i].speaker \in Declared

\* C28: in part004, whenever ScenarioDisplay is shown with an audio buffer,
\* its narrator toggle shows the include flag the buffer was generated with.
C28_ToggleMatchesAudio ==
  (prog = "part004" /\ scenario # NoScenario /\ loading = "idle"
     /\ audio # NoAudio)
    => includeNarrator = audio.narrator

\* ---------------------------------------------- every call settles
\* Every external call eventually settles, and a continuation whose promise
\* has settled is run by the event loop. Nothing obliges the user to act.
CallsSettle ==
  /\ \A r \in Runs :
       /\ WF_vars(\E resp \in CodedResponses, storageOk \in BOOLEAN :
                    ResearchSettles(r, resp, storageOk))
       /\ WF_vars(\E out \in SpeechOutcomes : SpeechSettles(r, out))
       /\ \A i \in 1..MaxChars :
            WF_vars(\E out \in ImageOutcomes : PortraitSettles(r, i, out))
       /\ WF_vars(\E storageOk \in BOOLEAN : Join(r, storageOk))
  /\ WF_vars(\E out \in SpeechOutcomes : RegenSettles(out))

SpecLive == Spec /\ CallsSettle

\* What the page shows for the outcome of a query: the scenario, the error
\* banner (part004 and part003 render none), or the alert of part003.
OutcomeShown ==
  \/ scenario # NoScenario
  \/ error # NoError /\ prog \notin {"part004", "part003"}
  \/ prog = "part003" /\ nRuns >= 1 /\ Latest.pc = "failed"

\* C29: when every external call eventually settles, every submitted query
\* eventually brings loading back to 'idle' with a scenario or an error or
\* alert shown, in every program.
C29_QueryEndsIdleWithOutcome ==
  (loading # "idle") ~> (loading = "idle" /\ OutcomeShown)

\* ---------------------------------------------- chat with a figure
MaxChatCalls == 6   \* chatWithFigure calls issued in one behaviour

\* The chat state of the App components of part_002 and part_003 (the same
\* code in both). selectedFigure: a figure is selected; currentInput: the
\* input is not empty; chatHistory: the roles of its messages; pendingChat,
\* pendingSpeech: handlers waiting for chatWithFigure / generateSpeech;
\* sinceReset: chatWithFigure calls since the last resetAllStates.
ChatApps == {"part002", "part003"}
NoChat(app) ==
  [fn |-> "chat", app |-> app, selectedFigure |-> FALSE, isChatting |-> FALSE,
   currentInput |-> FALSE, messageCount |-> 0, chatHistory |-> <<>>,
   loading |-> "idle", quotaExceeded |-> FALSE,
   pendingChat |-> 0, pendingSpeech |-> 0, sinceReset |-> 0, issued |-> 0]

\* resetAllStates (scenario and audio are pipeline state).
resetAllStates(c) ==
  [c EXCEPT !.selectedFigure = FALSE, !.isChatting = FALSE,
            !.chatHistory = <<>>, !.messageCount = 0, !.currentInput = FALSE,
            !.loading = "idle", !.sinceReset = 0]

\* Mutant: the handler sends whatever the input holds, empty or not.
handleSendMessageAnyInput(c) ==
  IF c.messageCount >= 5 \/ ~c.selectedFigure THEN c
  ELSE [c EXCEPT !.chatHistory = Append(@, "user"),
                 !.currentInput = FALSE,
                 !.messageCount = @ + 1,
                 !.loading = "busy",
                 !.pendingChat = @ + 1,
                 !.sinceReset = @ + 1,
                 !.issued = @ + 1]

\* handleSendMessage up to its first await.
handleSendMessage(c) ==
  IF ~c.currentInput \/ c.messageCount >= 5 \/ ~c.selectedFigure THEN c
  ELSE [c EXCEPT !.chatHistory = Append(@, "user"),
                 !.currentInput = FALSE,
                 !.messageCount = @ + 1,
                 !.loading = "busy",
                 !.pendingChat = @ + 1,
                 !.sinceReset = @ + 1,
                 !.issued = @ + 1]

\* The catch and finally blocks of handleSendMessage.
sendFailed(c, out) ==
  [c EXCEPT !.quotaExceeded = @ \/ out = "quota",
            !.chatHistory = IF out = "quota" THEN @ ELSE Append(@, "model"),
            !.loading = "idle"]

ChatOutcomes == {"ok", "quota", "throw"}

InitChat ==
  /\ Parked
  /\ probe \in {NoChat(app) : app \in ChatApps}

Chat == probe.fn = "chat"

\* A figure of the gallery is clicked: resetAllStates(); setSelectedFigure(f).
SelectFigure ==
  /\ Chat /\ ~probe.selectedFigure
  /\ probe' = [resetAllStates(probe) EXCEPT !.selectedFigure = TRUE]
  /\ UNCHANGED pipeline

\* "Iniciar" on the figure's page: setIsChatting(true).
StartChat ==
  /\ Chat /\ probe.selectedFigure /\ ~probe.isChatting
  /\ probe' = [probe EXCEPT !.isChatting = TRUE]
  /\ UNCHANGED pipeline

\* The chat input is rendered, and enabled.
InputShown == probe.selectedFigure /\ probe.isChatting
InputEnabled == InputShown /\ probe.messageCount < 5 /\ probe.loading # "busy"

\* onChange of the textarea.
TypeInput(nonEmpty) ==
  /\ Chat /\ InputEnabled
  /\ probe.currentInput # nonEmpty
  /\ probe' = [probe EXCEPT !.currentInput = nonEmpty]
  /\ UNCHANGED pipeline

\* Enter in the textarea (the send button adds nothing: it is disabled
\* whenever the textarea is, and with an empty input).
Send ==
  /\ Chat /\ InputEnabled
  /\ probe.issued < MaxChatCalls
  /\ probe' = handleSendMessage(probe)
  /\ UNCHANGED pipeline

\* chatWithFigure settles: generateSpeech is called, or catch and finally.
ChatSettles(out) ==
  /\ Chat /\ probe.pendingChat > 0
  /\ probe' = IF out = "ok"
              THEN [probe EXCEPT !.pendingChat = @ - 1, !.pendingSpeech = @ + 1]
              ELSE [sendFailed(probe, out) EXCEPT !.pendingChat = @ - 1]
  /\ UNCHANGED pipeline

\* generateSpeech settles: the answer is appended, or catch; then finally.
ChatSpeechSettles(out) ==
  /\ Chat /\ probe.pendingSpeech > 0
  /\ probe' = IF out = "ok"
              THEN [probe EXCEPT !.pendingSpeech = @ - 1,
                                 !.chatHistory = Append(@, "model"),
                                 !.loading = "idle"]
              ELSE [sendFailed(probe, out) EXCEPT !.pendingSpeech = @ - 1]
  /\ UNCHANGED pipeline

\* "Limpiar Chat": setChatHistory([]).
ClearChat ==
  /\ Chat /\ InputShown /\ probe.chatHistory # <<>>
  /\ probe' = [probe EXCEPT !.chatHistory = <<>>]
  /\ UNCHANGED pipeline

\* "Volver a la Galeria": setSelectedFigure(null); setIsChatting(false).
BackToGallery ==
  /\ Chat /\ probe.selectedFigure
  /\ probe' = [probe EXCEPT !.selectedFigure = FALSE, !.isChatting = FALSE]
  /\ UNCHANGED pipeline

\* The navigation buttons and "Volver al Menu": resetAllStates().
ChatReset ==
  /\ Chat
  /\ probe # resetAllStates(probe)
  /\ probe' = resetAllStates(probe)
  /\ UNCHANGED pipeline

NextChat ==
  \/ SelectFigure
  \/ StartChat
  \/ \E nonEmpty \in BOOLEAN : TypeInput(nonEmpty)
  \/ Send
  \/ \E out \in ChatOutcomes : ChatSettles(out)
  \/ \E out \in ChatOutcomes : ChatSpeechSettles(out)
  \/ ClearChat
  \/ BackToGallery
  \/ ChatReset

SpecChat == InitChat /\ [][NextChat]_vars

\* ---------------------------------------------- claims on the chat
\* C30: in the chat apps messageCount never exceeds 5, at most 5
\* chatWithFigure calls are issued between two resetAllStates, and a send
\* with an empty input, without a selected figure or with messageCount >= 5
\* changes no state and issues no call.
C30_ChatLimitedToFive ==
  Chat =>
    /\ probe.messageCount <= 5
    /\ probe.sinceReset <= 5
    /\ (~probe.currentInput \/ ~probe.selectedFigure \/ probe.messageCount >= 5)
         => handleSendMessage(probe) = probe

\* Five messages sent to the figure chosen after a reset that followed one
\* message to another figure; the input is typed but the limit is reached.
C30_Witness ==
  /\ Chat
  /\ probe.messageCount = 5
  /\ probe.sinceReset = 5
  /\ probe.issued = 6
  /\ probe.selectedFigure /\ probe.isChatting

====
